---------------------------- MODULE Spec2Model ----------------------------
(***************************************************************************)
(* Model of the background job pipeline of src/main.py: the job registry   *)
(* (Redis with a TTL, or the in-process dictionary), the upload / status / *)
(* download handlers, the ThreadPoolExecutor and processar_excel_background*)
(* One worker step of the model is the stretch of the function between two *)
(* effects other threads can see (a registry write, a file created or      *)
(* removed); what lies between is local to the worker thread.              *)
(***************************************************************************)
EXTENDS Integers, Sequences, FiniteSets, TLC

(* ------------------------------ bounds -------------------------------- *)

\* Uploads accepted in a behaviour of Spec.
MaxJobs == 2

\* Uploads accepted in a behaviour of PoolSpec (one more than the pool).
PoolJobs == 4

\* Data rows of the large work sheet (two progress checkpoints past row 0).
BigRows == 2001

\* Longest run of digits in a phone cell of RowSpec.
MaxDigits == 16

(* ------------------------- program constants -------------------------- *)

max_workers == 3
ProgressEvery == 1000
MaxPhoneLen == 13
MinPhoneLen == 10
RepairPos == 4

TaskIds == 1 .. (IF MaxJobs > PoolJobs THEN MaxJobs ELSE PoolJobs)

(* ------------------------------ strings ------------------------------- *)
\* A cell is a sequence of one-character strings.

Digit == {"0", "1", "2", "3", "4", "5", "6", "7", "8", "9"}

IsSpace(c) == c = " "

Rep(n, c) == [i \in 1 .. n |-> c]

\* str.strip(): from the first to the last character that is no white space.
Strip(s) ==
    LET solid == {i \in 1 .. Len(s) : ~IsSpace(s[i])}
    IN  IF solid = {} THEN <<>>
        ELSE SubSeq(s, CHOOSE i \in solid : \A m \in solid : i <= m,
                       CHOOSE i \in solid : \A m \in solid : i >= m)

\* re.sub(r"\D", "", telefone)
IsDigit(c) == c \in Digit
OnlyDigits(s) == SelectSeq(s, IsDigit)

\* Mutant: a phone that is too long is cut after its 13th digit.
RepairPhone_Truncate(t) == IF Len(t) > MaxPhoneLen THEN SubSeq(t, 1, MaxPhoneLen) ELSE t

\* while len(telefone) > 13: telefone = telefone[:4] + telefone[5:]
RECURSIVE RepairPhone(_)
RepairPhone(t) ==
    IF Len(t) > MaxPhoneLen
    THEN RepairPhone(SubSeq(t, 1, RepairPos) \o SubSeq(t, RepairPos + 2, Len(t)))
    ELSE t

\* The letters the cells of the sheets below are written with.
Lowers == <<"a", "b", "c", "d", "e", "j", "n", "p", "v">>
Uppers == <<"A", "B", "C", "D", "E", "J", "N", "P", "V">>

IsLetter(c) == \E i \in 1 .. Len(Lowers) : c = Lowers[i] \/ c = Uppers[i]

LowerChar(c) ==
    IF \E i \in 1 .. Len(Uppers) : c = Uppers[i]
    THEN Lowers[CHOOSE i \in 1 .. Len(Uppers) : c = Uppers[i]]
    ELSE c

UpperChar(c) ==
    IF \E i \in 1 .. Len(Lowers) : c = Lowers[i]
    THEN Uppers[CHOOSE i \in 1 .. Len(Lowers) : c = Lowers[i]]
    ELSE c

\* str.lower()
Lower(s) == [i \in 1 .. Len(s) |-> LowerChar(s[i])]

\* str.title(): a letter that follows no letter in upper case, the others
\* in lower case.
Title(s) ==
    [i \in 1 .. Len(s) |->
        IF i = 1 \/ ~IsLetter(s[i - 1]) THEN UpperChar(s[i]) ELSE LowerChar(s[i])]

\* str.split(): the maximal runs of characters that are no white space.
Split(s) ==
    LET starts == {i \in 1 .. Len(s) : ~IsSpace(s[i]) /\ (i = 1 \/ IsSpace(s[i - 1]))}
        ends == {i \in 1 .. Len(s) : ~IsSpace(s[i]) /\ (i = Len(s) \/ IsSpace(s[i + 1]))}
        nth(S, m) == CHOOSE i \in S : Cardinality({j \in S : j <= i}) = m
    IN  [m \in 1 .. Cardinality(starts) |-> SubSeq(s, nth(starts, m), nth(ends, m))]

\* " ".join(partes)
RECURSIVE Join(_)
Join(partes) ==
    IF partes = <<>> THEN <<>>
    ELSE IF Len(partes) = 1 THEN partes[1]
    ELSE partes[1] \o <<" ">> \o Join(Tail(partes))

(* ------------------------------ headers ------------------------------- *)

\* str(cell.value).strip().lower() on the header cells the sheets below use.
NormalizeHeader(h) ==
    CASE h = "Nome" -> "nome"
      [] h = "Telefone" -> "telefone"
      [] h = " Telefone " -> "telefone"
      [] h = "Etiquetas" -> "etiquetas"
      [] h = "Primeiro Nome" -> "primeiro nome"
      [] h = "Sobrenome" -> "sobrenome"
      [] h = "Email" -> "email"
      [] h = "Tag" -> "tag"
      [] OTHER -> h

Headers(sh) == [i \in 1 .. Len(sh.header) |-> NormalizeHeader(sh.header[i])]

HeaderSet(sh) == {Headers(sh)[i] : i \in 1 .. Len(sh.header)}

\* idx = {h: i for i, h in enumerate(headers)}: the last column of a name wins.
Idx(sh, h) ==
    LET cols == {i \in 1 .. Len(sh.header) : Headers(sh)[i] = h}
    IN  CHOOSE i \in cols : \A j \in cols : j <= i

padrao_3_colunas(sh) == {"telefone", "nome", "etiquetas"} \subseteq HeaderSet(sh)

padrao_4_colunas(sh) ==
    {"primeiro nome", "sobrenome", "telefone", "etiquetas"} \subseteq HeaderSet(sh)

(* ------------------------------- sheets ------------------------------- *)
\* A work sheet: whether load_workbook can read the uploaded bytes, the
\* header row, the number n of data rows, and the data rows given as the
\* rows at the marked indices (row_idx, from 0) and one row for all others.

RowAt(sh, i) == IF i \in DOMAIN sh.marks THEN sh.marks[i] ELSE sh.fill

\* ws.max_row: the header row and the data rows.
linhas_originais(sh) == 1 + sh.n

\* all(cell is None or str(cell).strip() == "" for cell in row)
IsBlankRow(row) == \A c \in 1 .. Len(row) : Strip(row[c]) = <<>>

PhoneColumns == <<"telefone", "contato", "celular">>

\* The phone of a row: the first of PhoneColumns in the header, digits only,
\* repaired; "" when none of the columns is there.
PhoneOf(sh, row) ==
    LET here == {p \in 1 .. Len(PhoneColumns) :
                    PhoneColumns[p] \in HeaderSet(sh)
                    /\ Len(row) >= Idx(sh, PhoneColumns[p])}
    IN  IF here = {} THEN <<>>
        ELSE LET p == CHOOSE q \in here : \A r \in here : q <= r
             IN  RepairPhone(OnlyDigits(row[Idx(sh, PhoneColumns[p])]))

\* partes[0].title() and " ".join(partes[1:]).title() of a stripped cell.
FirstWord(cell) ==
    LET partes == Split(Strip(cell))
    IN  IF partes # <<>> THEN Title(partes[1]) ELSE <<>>

RestWords(cell) ==
    LET partes == Split(Strip(cell))
    IN  IF Len(partes) > 1 THEN Title(Join(Tail(partes))) ELSE <<>>

\* The names of the 3-column pattern: the full name is in the column "nome".
nome_3_colunas(sh, row) ==
    [primeiro_nome |-> FirstWord(row[Idx(sh, "nome")]),
     sobrenome |-> RestWords(row[Idx(sh, "nome")])]

\* The names of the 4-column pattern: "primeiro nome" and "sobrenome".
nome_4_colunas(sh, row) ==
    LET sobrenome_original == Strip(row[Idx(sh, "sobrenome")])
        sobrenome_splitado == RestWords(row[Idx(sh, "primeiro nome")])
    IN  [primeiro_nome |-> FirstWord(row[Idx(sh, "primeiro nome")]),
         sobrenome |-> Title(Strip(sobrenome_splitado \o <<" ">> \o sobrenome_original))]

NoName == [primeiro_nome |-> <<>>, sobrenome |-> <<>>]

\* Mutant: the 4-column pattern looked at first.
NameOf_FourFirst(sh, row) ==
    IF padrao_4_colunas(sh) THEN nome_4_colunas(sh, row)
    ELSE IF padrao_3_colunas(sh) THEN nome_3_colunas(sh, row)
    ELSE NoName

\* if padrao_3_colunas: ... elif padrao_4_colunas: ...
NameOf(sh, row) ==
    IF padrao_3_colunas(sh) THEN nome_3_colunas(sh, row)
    ELSE IF padrao_4_colunas(sh) THEN nome_4_colunas(sh, row)
    ELSE NoName

TagColumns == <<"etiquetas", "etiqueta", "tag">>

etiqueta_padrao ==
    <<"N", "o", "m", "e", "C", "o", "n", "f", "i", "r", "m", "a", "d", "o">>

\* Mutant: the comparison with "nan" in the case the cell has.
TagOf_CaseSensitive(sh, row) ==
    LET here == {p \in 1 .. Len(TagColumns) :
                    TagColumns[p] \in HeaderSet(sh)
                    /\ Len(row) >= Idx(sh, TagColumns[p])}
    IN  IF here = {} THEN etiqueta_padrao
        ELSE LET p == CHOOSE q \in here : \A r \in here : q <= r
                 val == Strip(row[Idx(sh, TagColumns[p])])
             IN  IF val # <<>> /\ val # <<"n", "a", "n">>
                 THEN val \o <<",", " ">> \o etiqueta_padrao
                 ELSE etiqueta_padrao

\* The tag of a row: the first of TagColumns in the header, stripped, with
\* the default appended; the default alone for an empty cell or "nan".
TagOf(sh, row) ==
    LET here == {p \in 1 .. Len(TagColumns) :
                    TagColumns[p] \in HeaderSet(sh)
                    /\ Len(row) >= Idx(sh, TagColumns[p])}
    IN  IF here = {} THEN etiqueta_padrao
        ELSE LET p == CHOOSE q \in here : \A r \in here : q <= r
                 val == Strip(row[Idx(sh, TagColumns[p])])
             IN  IF val # <<>> /\ Lower(val) # <<"n", "a", "n">>
                 THEN val \o <<",", " ">> \o etiqueta_padrao
                 ELSE etiqueta_padrao

\* The list the loop appends to novo_dados for a row it keeps.
TransformRow(sh, row) ==
    <<NameOf(sh, row).primeiro_nome, NameOf(sh, row).sobrenome,
      PhoneOf(sh, row), TagOf(sh, row)>>

\* Mutant: a phone of exactly ten digits is not enough.
IsKeptRow_MoreThanTen(sh, row) ==
    ~IsBlankRow(row) /\ Len(PhoneOf(sh, row)) > MinPhoneLen

\* if telefone and len(telefone) >= 10: novo_dados.append(...)
IsKeptRow(sh, row) == ~IsBlankRow(row) /\ Len(PhoneOf(sh, row)) >= MinPhoneLen

\* The marked rows that are data rows of the sheet.
MarkedRows(sh) == {i \in DOMAIN sh.marks : i < sh.n}

\* len(novo_dados) after the row loop: the marked rows one by one, the
\* others all alike.
KeptCount(sh) ==
    Cardinality({i \in MarkedRows(sh) : IsKeptRow(sh, sh.marks[i])})
    + (IF IsKeptRow(sh, sh.fill) THEN sh.n - Cardinality(MarkedRows(sh)) ELSE 0)

\* linhas_em_branco after the row loop.
BlankCount(sh) ==
    Cardinality({i \in MarkedRows(sh) : IsBlankRow(sh.marks[i])})
    + (IF IsBlankRow(sh.fill) THEN sh.n - Cardinality(MarkedRows(sh)) ELSE 0)

\* Mutant: the checkpoint without its base of 30.
RowProgress_NoBase(sh, r) == (r * 50) \div linhas_originais(sh)

\* progresso = 30 + int((row_idx / linhas_originais) * 50); min(progresso, 80)
RowProgress(sh, r) ==
    LET progresso == 30 + ((r * 50) \div linhas_originais(sh))
    IN  IF progresso < 80 THEN progresso ELSE 80

\* The data rows at or after `from` at which the loop writes a checkpoint:
\* row_idx % 1000 == 0, and the row is not blank (a blank row `continue`s).
CheckpointRows(sh, from) ==
    {r \in {m * ProgressEvery : m \in 0 .. (sh.n \div ProgressEvery)} :
        /\ r >= from
        /\ r < sh.n
        /\ ~IsBlankRow(RowAt(sh, r))}

Phone11 == Rep(2, "1") \o Rep(9, "9")
Phone16 == <<"5", "5", "1", "1">> \o Rep(5, "9") \o Rep(7, "8")
PhoneFmt == <<"(", "1", "1", ")", " ", "9", "9", "9", "9", "-", "8", "8", "8", "8">>
Phone9 == Rep(9, "7")

RowKept == <<<<"a", " ", "b">>, Phone11, <<"v">>>>
RowLong == <<<<"a">>, Phone16, <<>>>>
RowShort == <<<<"a">>, Phone9, <<"v">>>>
RowBlank == <<<<>>, <<" ">>, <<>>>>
RowFmt4 == <<<<"j", " ", "p">>, <<"c">>, PhoneFmt, <<>>>>
RowBlank4 == <<<<>>, <<>>, <<>>, <<>>>>

Header3 == <<"Nome", "Telefone", "Etiquetas">>
Header4 == <<"Primeiro Nome", "Sobrenome", " Telefone ", "Etiquetas">>

NoMarks == [i \in {} |-> <<>>]

SheetTiny ==
    [readable |-> TRUE, header |-> Header3, n |-> 1, marks |-> NoMarks, fill |-> RowKept]

\* Bytes that are no workbook (a legacy .xls file, say): load_workbook raises.
SheetUnreadable ==
    [readable |-> FALSE, header |-> <<>>, n |-> 0, marks |-> NoMarks, fill |-> <<>>]

SheetNoPattern ==
    [readable |-> TRUE, header |-> <<"Nome", "Email">>, n |-> 1,
     marks |-> NoMarks, fill |-> <<<<"a">>, <<"e">>>>]

SheetZeroKept ==
    [readable |-> TRUE, header |-> Header3, n |-> 2,
     marks |-> (0 :> RowBlank), fill |-> RowShort]

SheetSmall ==
    [readable |-> TRUE, header |-> Header3, n |-> 4,
     marks |-> (0 :> RowKept @@ 1 :> RowBlank @@ 2 :> RowLong), fill |-> RowShort]

SheetBig ==
    [readable |-> TRUE, header |-> Header4, n |-> BigRows,
     marks |-> (0 :> RowBlank4 @@ 1 :> RowBlank4 @@ 1000 :> RowFmt4),
     fill |-> RowFmt4]

\* The large sheet with its row 1000 blank.
SheetGap == [SheetBig EXCEPT !.marks = (ProgressEvery :> RowBlank4)]

Sheets == {SheetUnreadable, SheetNoPattern, SheetZeroKept, SheetSmall, SheetBig}

PoolSheets == {SheetTiny, SheetNoPattern}

\* The sheets of RowSpec: a header, then a blank row, a row with a name, a
\* tag and a phone of nine digits, and one row drawn from the cells below.

HeaderBoth == <<"Primeiro Nome", "Sobrenome", "Nome", "Telefone", "Etiquetas">>
HeaderTag == <<"Tag", "Nome", "Telefone", "Etiquetas">>

RowHeaders == {Header3, Header4, HeaderBoth, HeaderTag}

\* The first n of the digits 1 2 3 4 5 6 7 8 9 0 1 2 ...
Digits10 == <<"0", "1", "2", "3", "4", "5", "6", "7", "8", "9">>
Wide(n) == [i \in 1 .. n |-> Digits10[(i % 10) + 1]]

PhoneCells ==
    {Wide(n) : n \in 0 .. MaxDigits}
    \cup {PhoneFmt, <<"+">> \o Wide(MaxPhoneLen + 1), <<"n", "a", "n">>}

\* <<nome, primeiro nome, sobrenome>>
NameCells ==
    {<<<<" ", "a", "B", " ", " ", "c", " ", "d", "1", "e">>, <<"j", " ", "p">>, <<"v", "A">>>>,
     <<<<"n", "a", "n">>, <<" ", "E">>, <<>>>>,
     <<<<>>, <<>>, <<" ", "b", " ">>>>}

TagCells ==
    {<<>>, <<" ">>, <<"n", "a", "n">>, <<" ", "N", "a", "N", " ">>,
     <<"n", "a", "n", "a">>, <<" ", "v", " ", "p">>}

\* The row that has, under each column of the header, the cell given for it.
RowOf(header, cells) == [i \in 1 .. Len(header) |-> cells[NormalizeHeader(header[i])]]

CellsOf(names, phone, tag) ==
    [h \in {"nome", "primeiro nome", "sobrenome", "telefone", "etiquetas", "tag"} |->
        CASE h = "nome" -> names[1]
          [] h = "primeiro nome" -> names[2]
          [] h = "sobrenome" -> names[3]
          [] h = "telefone" -> phone
          [] h = "etiquetas" -> tag
          [] OTHER -> <<"c">>]

RowSheet(header, row) ==
    [readable |-> TRUE, header |-> header, n |-> 3,
     marks |-> (0 :> [i \in 1 .. Len(header) |-> IF i = 1 THEN <<" ">> ELSE <<>>]
                @@ 1 :> RowOf(header, CellsOf(<<<<"a">>, <<"a">>, <<"b">>>>, Phone9, <<"v">>))),
     fill |-> row]

RowSheets ==
    {RowSheet(header, RowOf(header, CellsOf(names, phone, tag))) :
        header \in RowHeaders, names \in NameCells, phone \in PhoneCells, tag \in TagCells}

FileNames == {"c.xlsx", "c.txt"}

(* ------------------------------- state -------------------------------- *)

VARIABLES
    USE_REDIS,      \* which registry backend the process started with
    registry,       \* job id -> status record: Redis keys, or jobs_status_fallback
    uploads,        \* the temporary input files that exist (by task)
    sheet,          \* the work sheet each uploaded file holds
    output,         \* the output files that exist (by task) -> what they hold
    nextJob,        \* uploads accepted so far, plus one
    task,           \* the arguments run_in_executor passed for each task
    queue,          \* the executor's work queue: tasks no worker has taken
    pc,             \* where each task is in processar_excel_background
    row_idx,        \* the row loop's position
    novo_dados,     \* len(novo_dados) once the row loop is over
    linhas_teste,   \* the row count read back from the output file
    err,            \* str(e) of the exception the task raised ("" for none)
    job_read,       \* the record update_job_progress read from Redis, changed
                    \* and has not stored yet (NoJob for none)
    waited,         \* the tasks submitted while every worker was busy
    shown,          \* history: the statuses each job's entry has held
    resp            \* the last HTTP response

vars ==
    <<USE_REDIS, registry, uploads, sheet, output, nextJob, task, queue, pc,
      row_idx, novo_dados, linhas_teste, err, job_read, waited, shown, resp>>

workerVars == <<pc, row_idx, novo_dados, linhas_teste, err>>

NoTask == [arquivo_entrada |-> 0, job_id |-> 0, nome_original |-> ""]

NoResp == [op |-> "none", job_id |-> 0, code |-> 0, detail |-> ""]

NoJob == [status |-> "none"]

(* ------------------------------ registry ------------------------------ *)

\* get_job_status returns None for a key that is not there.
HasJob(reg, job_id) == job_id \in DOMAIN reg

get_job_status(reg, job_id) == reg[job_id]

\* setex / dictionary store: the whole record, whether or not the key exists.
set_job_status(reg, job_id, status_data) ==
    [j \in DOMAIN reg \cup {job_id} |-> IF j = job_id THEN status_data ELSE reg[j]]

\* Read, change progresso, write back; nothing when the key is not there.
update_job_progress(reg, job_id, progress) ==
    IF HasJob(reg, job_id)
    THEN set_job_status(reg, job_id,
             [get_job_status(reg, job_id) EXCEPT !.progresso = progress])
    ELSE reg

ProcessingRecord(nome) ==
    [status |-> "processing", arquivo_original |-> nome, progresso |-> 0]

\* Mutant: the Completed record written with the progress of the step before.
CompletedRecord_StaleProgress(k, sh, nome, kept) ==
    [status |-> "completed", arquivo_saida |-> k, nome_arquivo |-> nome,
     arquivo_original |-> nome, progresso |-> 85,
     resultado |-> [linhas_originais |-> linhas_originais(sh),
                    colunas_encontradas |-> Headers(sh),
                    linhas_novo |-> kept,
                    linhas_em_branco |-> BlankCount(sh)]]

\* Mutant: the Completed record names a path at which no file was saved.
CompletedRecord_WrongPath(k, sh, nome, kept) ==
    [status |-> "completed", arquivo_saida |-> 0, nome_arquivo |-> nome,
     arquivo_original |-> nome, progresso |-> 100,
     resultado |-> [linhas_originais |-> linhas_originais(sh),
                    colunas_encontradas |-> Headers(sh),
                    linhas_novo |-> kept,
                    linhas_em_branco |-> BlankCount(sh)]]

\* The record of line 400. The output path is the task's own file; the
\* output name stands for "<base>_<uuid4>.xlsx"; the column counts are left out.
CompletedRecord(k, sh, nome, kept) ==
    [status |-> "completed",
     arquivo_saida |-> k,
     nome_arquivo |-> nome,
     arquivo_original |-> nome,
     progresso |-> 100,
     resultado |-> [linhas_originais |-> linhas_originais(sh),
                    colunas_encontradas |-> Headers(sh),
                    linhas_novo |-> kept,
                    linhas_em_branco |-> BlankCount(sh)]]

\* Mutant: the Error record names the output file the task was writing.
ErrorRecord_KeepsOutput(nome, e) ==
    [status |-> "error", error |-> e, arquivo_original |-> nome, progresso |-> 0,
     arquivo_saida |-> 0, nome_arquivo |-> nome]

ErrorRecord(nome, e) ==
    [status |-> "error", error |-> e, arquivo_original |-> nome, progresso |-> 0]

\* The exception messages (accents dropped).
MsgLoad == "File is not a zip file"
MsgFormat == "Formato de planilha nao reconhecido. Colunas necessarias nao encontradas."
MsgNoRows == "Nenhuma linha valida encontrada para processar"
MsgSave == "No space left on device"
MsgNotCreated == "Arquivo nao foi criado no sistema de arquivos"
MsgCorrupt == "Arquivo gerado esta corrompido: File is not a zip file"

\* The history after a step that leaves the registry as reg.
Observe(reg) ==
    [j \in TaskIds |-> shown[j] \cup (IF HasJob(reg, j) THEN {reg[j].status} ELSE {})]

(* -------------------------------- Init -------------------------------- *)

InitWith(redis) ==
    /\ USE_REDIS \in redis
    /\ registry = [j \in {} |-> NoTask]
    /\ uploads = {}
    /\ sheet = [k \in TaskIds |-> SheetUnreadable]
    /\ output = [k \in {} |-> NoTask]
    /\ nextJob = 1
    /\ task = [k \in TaskIds |-> NoTask]
    /\ queue = <<>>
    /\ pc = [k \in TaskIds |-> "none"]
    /\ row_idx = [k \in TaskIds |-> 0]
    /\ novo_dados = [k \in TaskIds |-> 0]
    /\ linhas_teste = [k \in TaskIds |-> 0]
    /\ err = [k \in TaskIds |-> ""]
    /\ job_read = [k \in TaskIds |-> NoJob]
    /\ waited = {}
    /\ shown = [j \in TaskIds |-> {}]
    /\ resp = NoResp

Init == InitWith(BOOLEAN)

(* ------------------------------ requests ------------------------------ *)

\* Mutant: a worker that has finished a task takes no other.
Running_NeverFreed == {k \in TaskIds : pc[k] \notin {"none", "queued"}}

\* The tasks a worker thread of the executor is running.
Running == {k \in TaskIds : pc[k] \notin {"none", "queued", "done"}}

\* Mutant: the same identifier for every upload.
uuid4_Reused(used) == 1

\* str(uuid4()): an identifier no job has had.
uuid4(used) == CHOOSE j \in TaskIds : j \notin used /\ \A i \in TaskIds \ used : j <= i

EndsWithExcel(filename) == filename \in {"c.xlsx", "c.xls"}

\* POST /upload
upload_excel(limit, filename, sh) ==
    /\ nextJob <= limit
    /\ IF ~EndsWithExcel(filename)
       THEN /\ resp' = [op |-> "upload", job_id |-> 0, code |-> 400, detail |-> ""]
            /\ UNCHANGED <<USE_REDIS, job_read, registry, uploads, sheet, output, nextJob,
                           task, queue, workerVars, waited, shown>>
       ELSE LET k == nextJob
                job_id == uuid4({task[i].job_id : i \in 1 .. (nextJob - 1)})
            IN  /\ uploads' = uploads \cup {k}
                /\ sheet' = [sheet EXCEPT ![k] = sh]
                /\ registry' = set_job_status(registry, job_id, ProcessingRecord(filename))
                /\ task' = [task EXCEPT ![k] = [arquivo_entrada |-> k,
                                                job_id |-> job_id,
                                                nome_original |-> filename]]
                /\ queue' = Append(queue, k)
                /\ pc' = [pc EXCEPT ![k] = "queued"]
                /\ waited' = IF Cardinality(Running) >= max_workers
                             THEN waited \cup {k} ELSE waited
                /\ nextJob' = nextJob + 1
                /\ shown' = Observe(registry')
                /\ resp' = [op |-> "upload", job_id |-> job_id, code |-> 200, detail |-> ""]
                /\ UNCHANGED <<USE_REDIS, job_read, output, row_idx, novo_dados, linhas_teste, err>>

\* GET /status/{job_id}
StatusResponse(job_id) ==
    IF ~HasJob(registry, job_id)
    THEN [op |-> "status", job_id |-> job_id, code |-> 404, detail |-> ""]
    ELSE [op |-> "status", job_id |-> job_id, code |-> 200,
          detail |-> get_job_status(registry, job_id).status]

verificar_status(job_id) ==
    /\ resp' = StatusResponse(job_id)
    /\ UNCHANGED <<USE_REDIS, job_read, registry, uploads, sheet, output, nextJob, task,
                   queue, workerVars, waited, shown>>

\* Mutant: the download without the check of the status.
DownloadResponse_NoStatusCheck(job_id) ==
    LET r(code, detail) ==
            [op |-> "download", job_id |-> job_id, code |-> code, detail |-> detail]
    IN  IF ~HasJob(registry, job_id) THEN r(404, "Job nao encontrado")
        ELSE LET job == get_job_status(registry, job_id)
             IN  IF "arquivo_saida" \notin DOMAIN job THEN r(500, "caminho")
                 ELSE IF job.arquivo_saida \notin DOMAIN output
                      THEN r(404, "Arquivo nao encontrado")
                 ELSE r(200, "")

\* GET /download/{job_id}
DownloadResponse(job_id) ==
    LET r(code, detail) ==
            [op |-> "download", job_id |-> job_id, code |-> code, detail |-> detail]
    IN  IF ~HasJob(registry, job_id) THEN r(404, "Job nao encontrado")
        ELSE LET job == get_job_status(registry, job_id)
             IN  IF job.status # "completed" THEN r(400, job.status)
                 ELSE IF "arquivo_saida" \notin DOMAIN job THEN r(500, "caminho")
                 ELSE IF job.arquivo_saida \notin DOMAIN output
                      THEN r(404, "Arquivo nao encontrado")
                 ELSE IF ~output[job.arquivo_saida].readable
                      THEN r(500, "Arquivo corrompido")
                 ELSE r(200, "")

download_arquivo(job_id) ==
    /\ resp' = DownloadResponse(job_id)
    /\ UNCHANGED <<USE_REDIS, job_read, registry, uploads, sheet, output, nextJob, task,
                   queue, workerVars, waited, shown>>

\* The Redis key of a job reaches its 3600 s time to live.
Expire(job_id) ==
    /\ USE_REDIS
    /\ HasJob(registry, job_id)
    /\ registry' = [j \in DOMAIN registry \ {job_id} |-> registry[j]]
    /\ UNCHANGED <<USE_REDIS, job_read, uploads, sheet, output, nextJob, task, queue,
                   workerVars, waited, resp>>
    /\ shown' = Observe(registry')

(* --------------------- processar_excel_background --------------------- *)

\* update_job_progress as a worker runs it. With Redis the read (line 60) and
\* the write (line 63) are two commands, and the key may expire between
\* them: the step reads and changes the record, StoreProgress writes it.
\* With the dictionary, which only this task writes, it is one step.
ReportProgress(k, progress) ==
    IF USE_REDIS /\ HasJob(registry, task[k].job_id)
    THEN /\ job_read' = [job_read EXCEPT ![k] =
                        [get_job_status(registry, task[k].job_id)
                            EXCEPT !.progresso = progress]]
         /\ registry' = registry
    ELSE /\ registry' = update_job_progress(registry, task[k].job_id, progress)
         /\ job_read' = job_read

\* set_job_status(job_id, job) of update_job_progress: the record that was
\* read is stored, whether or not the key is still there.
StoreProgress(k) ==
    /\ job_read[k] # NoJob
    /\ registry' = set_job_status(registry, task[k].job_id, job_read[k])
    /\ job_read' = [job_read EXCEPT ![k] = NoJob]
    /\ shown' = Observe(registry')
    /\ UNCHANGED <<USE_REDIS, uploads, sheet, output, nextJob, task, queue,
                   workerVars, waited, resp>>

Raise(k, e) ==
    /\ pc' = [pc EXCEPT ![k] = "except"]
    /\ err' = [err EXCEPT ![k] = e]

Goto(k, label) ==
    /\ pc' = [pc EXCEPT ![k] = label]
    /\ err' = err

\* Mutant: a thread is started for every task, however many are running.
LoadWorkbook_NoLimit(k) ==
    /\ pc[k] = "queued" /\ job_read[k] = NoJob
    /\ queue # <<>> /\ Head(queue) = k
    /\ queue' = Tail(queue)
    /\ IF sheet[task[k].arquivo_entrada].readable
       THEN /\ ReportProgress(k, 10)
            /\ Goto(k, "headers")
       ELSE /\ UNCHANGED <<registry, job_read>>
            /\ Raise(k, MsgLoad)
    /\ UNCHANGED <<USE_REDIS, uploads, sheet, output, nextJob, task, row_idx,
                   novo_dados, linhas_teste, waited, resp>>
    /\ shown' = Observe(registry')

\* A free worker takes the task from the queue, opens the temporary file and
\* loads the workbook, then reports 10.
LoadWorkbook(k) ==
    /\ pc[k] = "queued" /\ job_read[k] = NoJob
    /\ queue # <<>> /\ Head(queue) = k
    /\ Cardinality(Running) < max_workers
    /\ queue' = Tail(queue)
    /\ IF sheet[task[k].arquivo_entrada].readable
       THEN /\ ReportProgress(k, 10)
            /\ Goto(k, "headers")
       ELSE /\ UNCHANGED <<registry, job_read>>
            /\ Raise(k, MsgLoad)
    /\ UNCHANGED <<USE_REDIS, uploads, sheet, output, nextJob, task, row_idx,
                   novo_dados, linhas_teste, waited, resp>>
    /\ shown' = Observe(registry')

\* Mutant: 30 is reported before the patterns are looked at.
DetectSchema_ReportsFirst(k) ==
    /\ pc[k] = "headers" /\ job_read[k] = NoJob
    /\ ReportProgress(k, 30)
    /\ IF ~padrao_3_colunas(sheet[k]) /\ ~padrao_4_colunas(sheet[k])
       THEN Raise(k, MsgFormat)
       ELSE Goto(k, "rows")
    /\ UNCHANGED <<USE_REDIS, uploads, sheet, output, nextJob, task, queue,
                   row_idx, novo_dados, linhas_teste, waited, resp>>
    /\ shown' = Observe(registry')

\* Reads the header row and looks for the two column patterns, then reports 30.
DetectSchema(k) ==
    /\ pc[k] = "headers" /\ job_read[k] = NoJob
    /\ IF ~padrao_3_colunas(sheet[k]) /\ ~padrao_4_colunas(sheet[k])
       THEN /\ UNCHANGED <<registry, job_read>>
            /\ Raise(k, MsgFormat)
       ELSE /\ ReportProgress(k, 30)
            /\ Goto(k, "rows")
    /\ UNCHANGED <<USE_REDIS, uploads, sheet, output, nextJob, task, queue,
                   row_idx, novo_dados, linhas_teste, waited, resp>>
    /\ shown' = Observe(registry')

\* The row loop, up to and including its next checkpoint write; with no
\* checkpoint left, to its end, where len(novo_dados) is known.
ProcessRows(k) ==
    /\ pc[k] = "rows" /\ job_read[k] = NoJob
    /\ LET next == CheckpointRows(sheet[k], row_idx[k])
       IN  IF next # {}
           THEN LET r == CHOOSE x \in next : \A y \in next : x <= y
                IN  /\ ReportProgress(k, RowProgress(sheet[k], r))
                    /\ row_idx' = [row_idx EXCEPT ![k] = r + 1]
                    /\ UNCHANGED <<pc, err, novo_dados>>
           ELSE /\ novo_dados' = [novo_dados EXCEPT ![k] = KeptCount(sheet[k])]
                /\ row_idx' = [row_idx EXCEPT ![k] = sheet[k].n]
                /\ UNCHANGED <<registry, job_read>>
                /\ Goto(k, "columns")
    /\ UNCHANGED <<USE_REDIS, uploads, sheet, output, nextJob, task, queue,
                   linhas_teste, waited, resp>>
    /\ shown' = Observe(registry')

\* Opens the file again to count the blank columns, then reports 85.
CountBlankColumns(k) ==
    /\ pc[k] = "columns" /\ job_read[k] = NoJob
    /\ ReportProgress(k, 85)
    /\ Goto(k, "save")
    /\ UNCHANGED <<USE_REDIS, uploads, sheet, output, nextJob, task, queue,
                   row_idx, novo_dados, linhas_teste, waited, resp>>
    /\ shown' = Observe(registry')

\* What storing the output workbook can come to: written as built; save
\* raises; save returns and no file is there; a file load_workbook cannot
\* read; a readable file that lacks its last row.
SaveOutcomes == {"ok", "ioerror", "missing", "unreadable", "truncated"}

WrittenFile(outcome, rows) ==
    [readable |-> outcome # "unreadable",
     rows |-> IF outcome = "truncated" THEN rows - 1 ELSE rows]

\* Mutant: the output workbook is built and saved even with no kept row.
SaveOutput_NoEmptyCheck(k, outcomes) ==
    /\ pc[k] = "save" /\ job_read[k] = NoJob
    /\ \E outcome \in outcomes :
          IF outcome \in {"ioerror", "missing"}
          THEN /\ output' = output
               /\ Raise(k, IF outcome = "ioerror" THEN MsgSave ELSE MsgNotCreated)
          ELSE /\ output' = (k :> WrittenFile(outcome, 1 + novo_dados[k])) @@ output
               /\ Goto(k, "validate")
    /\ UNCHANGED <<USE_REDIS, job_read, registry, uploads, sheet, nextJob, task, queue,
                   row_idx, novo_dados, linhas_teste, waited, shown, resp>>

\* Refuses an empty novo_dados; otherwise builds the output workbook (the
\* header and the kept rows) and saves it.
SaveOutput(k, outcomes) ==
    /\ pc[k] = "save" /\ job_read[k] = NoJob
    /\ IF novo_dados[k] = 0
       THEN /\ output' = output
            /\ Raise(k, MsgNoRows)
       ELSE \E outcome \in outcomes :
               IF outcome \in {"ioerror", "missing"}
               THEN /\ output' = output
                    /\ Raise(k, IF outcome = "ioerror" THEN MsgSave ELSE MsgNotCreated)
               ELSE /\ output' = (k :> WrittenFile(outcome, 1 + novo_dados[k])) @@ output
                    /\ Goto(k, "validate")
    /\ UNCHANGED <<USE_REDIS, job_read, registry, uploads, sheet, nextJob, task, queue,
                   row_idx, novo_dados, linhas_teste, waited, shown, resp>>

\* Loads the output file again and reads its row count, then reports 100.
ValidateOutput(k) ==
    /\ pc[k] = "validate" /\ job_read[k] = NoJob
    /\ IF ~output[k].readable
       THEN /\ UNCHANGED <<registry, job_read>>
            /\ linhas_teste' = linhas_teste
            /\ Raise(k, MsgCorrupt)
       ELSE /\ linhas_teste' = [linhas_teste EXCEPT ![k] = output[k].rows]
            /\ ReportProgress(k, 100)
            /\ Goto(k, "complete")
    /\ UNCHANGED <<USE_REDIS, uploads, sheet, output, nextJob, task, queue,
                   row_idx, novo_dados, waited, resp>>
    /\ shown' = Observe(registry')

\* Mutant: a statement after the Completed write raises inside the try.
MarkCompleted_ThenRaises(k) ==
    /\ pc[k] = "complete" /\ job_read[k] = NoJob
    /\ registry' = set_job_status(registry, task[k].job_id,
                       CompletedRecord(k, sheet[k], task[k].nome_original, novo_dados[k]))
    /\ Raise(k, MsgSave)
    /\ UNCHANGED <<USE_REDIS, job_read, uploads, sheet, output, nextJob, task, queue,
                   row_idx, novo_dados, linhas_teste, waited, resp>>
    /\ shown' = Observe(registry')

\* set_job_status(job_id, {"status": "completed", ...})
MarkCompleted(k) ==
    /\ pc[k] = "complete" /\ job_read[k] = NoJob
    /\ registry' = set_job_status(registry, task[k].job_id,
                       CompletedRecord(k, sheet[k], task[k].nome_original, novo_dados[k]))
    /\ Goto(k, "finally")
    /\ UNCHANGED <<USE_REDIS, job_read, uploads, sheet, output, nextJob, task, queue,
                   row_idx, novo_dados, linhas_teste, waited, resp>>
    /\ shown' = Observe(registry')

\* Mutant: the handler swallows the exception and records nothing.
HandleError_Swallows(k) ==
    /\ pc[k] = "except" /\ job_read[k] = NoJob
    /\ Goto(k, "finally")
    /\ UNCHANGED <<USE_REDIS, job_read, registry, uploads, sheet, output, nextJob, task,
                   queue, row_idx, novo_dados, linhas_teste, waited, shown, resp>>

\* except Exception as e: set_job_status(job_id, {"status": "error", ...})
HandleError(k) ==
    /\ pc[k] = "except" /\ job_read[k] = NoJob
    /\ registry' = set_job_status(registry, task[k].job_id,
                       ErrorRecord(task[k].nome_original, err[k]))
    /\ Goto(k, "finally")
    /\ UNCHANGED <<USE_REDIS, job_read, uploads, sheet, output, nextJob, task, queue,
                   row_idx, novo_dados, linhas_teste, waited, resp>>
    /\ shown' = Observe(registry')

\* os.remove of the temporary file: done, or it raises and the file stays.
RemoveOutcomes == {"removed", "oserror"}

\* finally: removes the temporary file if it exists; a failure is printed.
Cleanup(k, outcomes) ==
    /\ pc[k] = "finally" /\ job_read[k] = NoJob
    /\ \E outcome \in outcomes :
          uploads' = IF task[k].arquivo_entrada \in uploads /\ outcome = "removed"
                     THEN uploads \ {task[k].arquivo_entrada}
                     ELSE uploads
    /\ pc' = [pc EXCEPT ![k] = "done"]
    /\ row_idx' = [row_idx EXCEPT ![k] = 0]
    /\ UNCHANGED <<USE_REDIS, job_read, registry, sheet, output, nextJob, task, queue,
                   novo_dados, linhas_teste, err, waited, shown, resp>>

processar_excel_background(k, saves, removes) ==
    \/ LoadWorkbook(k)
    \/ DetectSchema(k)
    \/ ProcessRows(k)
    \/ CountBlankColumns(k)
    \/ SaveOutput(k, saves)
    \/ ValidateOutput(k)
    \/ MarkCompleted(k)
    \/ HandleError(k)
    \/ Cleanup(k, removes)

(* --------------------------- specifications --------------------------- *)

Next ==
    \/ \E f \in FileNames, sh \in Sheets : upload_excel(MaxJobs, f, sh)
    \/ \E j \in 1 .. MaxJobs : verificar_status(j)
    \/ \E j \in 1 .. MaxJobs : download_arquivo(j)
    \/ \E j \in 1 .. MaxJobs : Expire(j)
    \/ \E k \in 1 .. MaxJobs : processar_excel_background(k, SaveOutcomes, RemoveOutcomes)
    \/ \E k \in 1 .. MaxJobs : StoreProgress(k)

Spec == Init /\ [][Next]_vars

\* Four uploads to the three workers, on reliable storage.
PoolInit == InitWith({FALSE})

PoolNext ==
    \/ \E sh \in PoolSheets : upload_excel(PoolJobs, "c.xlsx", sh)
    \/ \E k \in 1 .. PoolJobs : processar_excel_background(k, {"ok"}, {"removed"})

PoolSpec ==
    /\ PoolInit
    /\ [][PoolNext]_vars
    /\ WF_vars(\E k \in TaskIds : processar_excel_background(k, {"ok"}, {"removed"}))

\* One upload drawn from RowSheets or the large sheet with the blank row
\* 1000, on reliable storage: what the row loop makes of a row depends on
\* the sheet alone.
RowNext ==
    \/ \E sh \in RowSheets \cup {SheetGap} : upload_excel(1, "c.xlsx", sh)
    \/ processar_excel_background(1, {"ok"}, {"removed"})

RowSpec == PoolInit /\ [][RowNext]_vars

(* ------------------------------- claims ------------------------------- *)

JobIds == 1 .. MaxJobs

StatusIs(j, st) == HasJob(registry, j) /\ registry[j].status = st

IsTerminal(j) == StatusIs(j, "completed") \/ StatusIs(j, "error")

\* The task that run_in_executor was given job id j.
Owner(j) == CHOOSE k \in TaskIds : task[k].job_id = j

Issued(j) == \E k \in TaskIds : task[k].job_id = j

\* C1: the statuses a job's registry entry shows follow Processing ->
\* Completed or Processing -> Error: an entry that has shown Completed or
\* Error never shows Processing again, and none shows both Completed and Error.
C1_StatusOrder ==
    \A j \in TaskIds :
        /\ StatusIs(j, "processing") => shown[j] = {"processing"}
        /\ ~({"completed", "error"} \subseteq shown[j])
        /\ HasJob(registry, j) => registry[j].status \in shown[j]

\* A job that showed Error, and whose worker has returned.
C1_Witness ==
    \E j \in JobIds : StatusIs(j, "error") /\ Issued(j) /\ pc[Owner(j)] = "done"

JobOf(k) == task[k].job_id

Progress(j) == registry[j].progresso

\* C2 as claimed: an entry reads 100 exactly when it is Completed.
C2_ProgressHundredIffCompleted ==
    \A j \in TaskIds :
        HasJob(registry, j) => (Progress(j) = 100 <=> registry[j].status = "completed")

\* C2, amended: every Completed entry reads exactly 100, and an entry reads
\* 100 only if it is Completed, or is still Processing with its worker past
\* the validation of the output file and about to write the Completed record.
C2_ProgressHundred ==
    \A j \in TaskIds :
        HasJob(registry, j) =>
            /\ registry[j].status = "completed" => Progress(j) = 100
            /\ Progress(j) = 100 =>
                   \/ registry[j].status = "completed"
                   \/ /\ registry[j].status = "processing"
                      /\ pc[Owner(j)] = "complete"
                      /\ Owner(j) \in DOMAIN output

\* One job Completed at 100 while another reads 100 and is still Processing.
C2_Witness ==
    \E i, j \in JobIds :
        /\ StatusIs(i, "completed") /\ Progress(i) = 100
        /\ StatusIs(j, "processing") /\ Progress(j) = 100

\* C3: while an entry is Processing, each value written to its progress is
\* at least the one it replaces, and every progress value is in 0..100.
C3_ProgressMonotone ==
    [][\A j \in TaskIds :
          /\ HasJob(registry', j) => Progress(j)' \in 0 .. 100
          /\ (StatusIs(j, "processing") /\ StatusIs(j, "processing")')
                 => Progress(j)' >= Progress(j)]_vars

\* Both row checkpoints of the large sheet have been written, then 85.
C3_Witness ==
    \E i, j \in JobIds :
        /\ StatusIs(i, "processing") /\ Progress(i) = RowProgress(SheetBig, 2 * ProgressEvery)
        /\ StatusIs(j, "processing") /\ Progress(j) = 85 /\ sheet[Owner(j)] = SheetBig

\* C4: a task that raised has been through the handler once it reaches
\* `finally`: its entry, unless the key expired since, is the Error record
\* with progress 0 and the exception's non-empty message, it was never
\* Completed, and the upload had answered 200 before the task ran.
C4_FailureRecorded ==
    \A k \in TaskIds :
        (pc[k] \in {"finally", "done"} /\ err[k] # "") =>
            /\ "error" \in shown[JobOf(k)]
            /\ "completed" \notin shown[JobOf(k)]
            /\ ~USE_REDIS => HasJob(registry, JobOf(k))
            /\ HasJob(registry, JobOf(k)) =>
                   /\ registry[JobOf(k)].status = "error"
                   /\ Progress(JobOf(k)) = 0
                   /\ registry[JobOf(k)].error = err[k]
                   /\ registry[JobOf(k)].error # ""

\* A task that failed after it had reported 85 (no kept row), now at 0.
C4_Witness ==
    \E k \in TaskIds :
        /\ pc[k] = "done" /\ err[k] = MsgNoRows
        /\ StatusIs(JobOf(k), "error") /\ Progress(JobOf(k)) = 0

\* C5: when the worker task has finished, the temporary input file no
\* longer exists, whatever the job's terminal status.
C5_TempFileRemoved ==
    \A k \in TaskIds : pc[k] = "done" => task[k].arquivo_entrada \notin uploads

\* C6: a job is Completed only if the row count read back from the output
\* file equals 1 (header) + the number of kept records.
C6_RowCountChecked ==
    \A j \in TaskIds :
        StatusIs(j, "completed") =>
            linhas_teste[Owner(j)] = 1 + novo_dados[Owner(j)]

\* The sheet of task k is read, matches a pattern and keeps no row.
ZeroKept(k) ==
    /\ pc[k] # "none"
    /\ sheet[k].readable
    /\ padrao_3_colunas(sheet[k]) \/ padrao_4_colunas(sheet[k])
    /\ KeptCount(sheet[k]) = 0

\* C7: a job whose sheet yields no kept row is never Completed, no output
\* file is ever created for it, and once its worker is past the handler its
\* entry is Error with the message of the empty-result validation.
C7_ZeroKeptFails ==
    \A k \in TaskIds :
        ZeroKept(k) =>
            /\ k \notin DOMAIN output
            /\ "completed" \notin shown[JobOf(k)]
            /\ pc[k] \notin {"validate", "complete"}
            /\ pc[k] \in {"finally", "done"} =>
                   /\ "error" \in shown[JobOf(k)]
                   /\ err[k] = MsgNoRows
                   /\ HasJob(registry, JobOf(k)) =>
                          /\ registry[JobOf(k)].status = "error"
                          /\ registry[JobOf(k)].error = MsgNoRows

C7_Witness ==
    \E k \in TaskIds :
        /\ ZeroKept(k) /\ pc[k] = "done"
        /\ StatusIs(JobOf(k), "error") /\ sheet[k].n > 0

\* C8: a download answers 200 only for an entry that is Completed, 404 for
\* an id with no entry, 400 naming the status for an entry that is
\* Processing or Error, and leaves the registry as it was.
C8_DownloadOnlyCompleted ==
    [][\A j \in TaskIds :
          download_arquivo(j) =>
              /\ registry' = registry
              /\ resp'.code = 200 => StatusIs(j, "completed")
              /\ ~HasJob(registry, j) => resp'.code = 404
              /\ (StatusIs(j, "processing") \/ StatusIs(j, "error")) =>
                     (resp'.code = 400 /\ resp'.detail = registry[j].status)]_vars

\* A download refused for a job in Error, with another one served.
C8_Witness ==
    /\ resp.op = "download" /\ resp.code = 400 /\ resp.detail = "error"
    /\ StatusIs(resp.job_id, "error")
    /\ \E j \in JobIds : StatusIs(j, "completed")

EntryChanged(j) ==
    \/ HasJob(registry, j) # HasJob(registry', j)
    \/ HasJob(registry, j) /\ HasJob(registry', j) /\ registry'[j] # registry[j]

Local(k) == <<pc[k], row_idx[k], novo_dados[k], linhas_teste[k], err[k], job_read[k]>>

\* The step is upload_excel creating the entry of a new id, then dispatching.
CreatedByUpload(j) ==
    /\ ~Issued(j) /\ ~HasJob(registry, j)
    /\ HasJob(registry', j)
    /\ registry'[j].status = "processing" /\ registry'[j].progresso = 0
    /\ resp'.op = "upload" /\ resp'.job_id = j
    /\ \E k \in TaskIds : pc[k] = "none" /\ pc'[k] = "queued" /\ task'[k].job_id = j

\* The step is one of the task dispatched for j, and of no other task.
WrittenByOwner(j) ==
    /\ Issued(j)
    /\ pc[Owner(j)] \notin {"none", "done"}
    /\ Local(Owner(j))' # Local(Owner(j))
    /\ \A k \in TaskIds \ {Owner(j)} : Local(k)' = Local(k)
    /\ resp' = resp

\* The step is the expiry of the key in Redis.
ExpiredByStore(j) ==
    /\ USE_REDIS /\ HasJob(registry, j) /\ ~HasJob(registry', j)
    /\ \A k \in TaskIds : Local(k)' = Local(k)
    /\ resp' = resp

\* C9: no two tasks have the same job id, and every step that changes the
\* entry of a job id is upload_excel creating it (Processing, 0) as it
\* dispatches the task, or a step of the one task dispatched for that id
\* (or the store expiring the key): no other task and no reader writes it.
C9_SingleWriter ==
    [][/\ \A j \in TaskIds :
             EntryChanged(j) =>
                 CreatedByUpload(j) \/ WrittenByOwner(j) \/ ExpiredByStore(j)
       /\ \A k1, k2 \in TaskIds :
             (k1 # k2 /\ pc'[k1] # "none" /\ pc'[k2] # "none")
                 => task'[k1].job_id # task'[k2].job_id]_vars

\* Two jobs in flight at once, each entry written by its own task.
C9_Witness ==
    \E i, j \in JobIds :
        /\ i # j
        /\ StatusIs(i, "processing") /\ Progress(i) = 30
        /\ StatusIs(j, "processing") /\ Progress(j) = 85
        /\ resp.op = "status"

\* C10: every task submitted to the executor gets to the end of the worker
\* function with its job Completed or Error.
C10_EventuallyTerminal ==
    \A k \in TaskIds :
        (pc[k] = "queued") ~> (pc[k] = "done" /\ IsTerminal(JobOf(k)))

\* A task that was submitted with all three workers busy has finished.
C10_Witness ==
    \E k \in waited : pc[k] = "done" /\ IsTerminal(JobOf(k))

\* The row loop of task k has been entered: its sheet was loaded and matches
\* one of the two patterns.
RowsRead(k) ==
    /\ pc[k] \notin {"none", "queued", "headers"}
    /\ sheet[k].readable
    /\ padrao_3_colunas(sheet[k]) \/ padrao_4_colunas(sheet[k])

\* The data rows of a sheet that are not blank.
SolidRows(sh) ==
    {row \in {RowAt(sh, i) : i \in MarkedRows(sh)}
             \cup (IF sh.n > Cardinality(MarkedRows(sh)) THEN {sh.fill} ELSE {}) :
        ~IsBlankRow(row)}

NamesAre(sh, row, names) ==
    /\ TransformRow(sh, row)[1] = names.primeiro_nome
    /\ TransformRow(sh, row)[2] = names.sobrenome

\* C11: when the header has "telefone", "nome" and "etiquetas", the names of
\* every row come from the column "nome", also when the header has "primeiro
\* nome" and "sobrenome" as well; they come from those two columns only when
\* the 3-column pattern does not match and the 4-column pattern does.
\* " aB  c d1e" gives "Ab" and "C D1E"; "j p" with "vA" gives "J" and "P Va".
C11_ThreeColumnPriority ==
    \A k \in TaskIds :
        RowsRead(k) =>
            \A row \in SolidRows(sheet[k]) :
                /\ padrao_3_colunas(sheet[k])
                       => NamesAre(sheet[k], row, nome_3_colunas(sheet[k], row))
                /\ (~padrao_3_colunas(sheet[k]) /\ padrao_4_colunas(sheet[k]))
                       => NamesAre(sheet[k], row, nome_4_colunas(sheet[k], row))
                /\ (padrao_3_colunas(sheet[k])
                    /\ row[Idx(sheet[k], "nome")]
                           = <<" ", "a", "B", " ", " ", "c", " ", "d", "1", "e">>)
                       => NamesAre(sheet[k], row,
                                   [primeiro_nome |-> <<"A", "b">>,
                                    sobrenome |-> <<"C", " ", "D", "1", "E">>])
                /\ (~padrao_3_colunas(sheet[k]) /\ padrao_4_colunas(sheet[k])
                    /\ row[Idx(sheet[k], "primeiro nome")] = <<"j", " ", "p">>
                    /\ row[Idx(sheet[k], "sobrenome")] = <<"v", "A">>)
                       => NamesAre(sheet[k], row,
                                   [primeiro_nome |-> <<"J">>,
                                    sobrenome |-> <<"P", " ", "V", "a">>])

\* A finished job whose header matches both patterns and whose row has
\* different names under the two.
C11_Witness ==
    \E k \in TaskIds :
        /\ pc[k] = "done" /\ StatusIs(JobOf(k), "completed")
        /\ padrao_3_colunas(sheet[k]) /\ padrao_4_colunas(sheet[k])
        /\ nome_3_colunas(sheet[k], sheet[k].fill) # nome_4_colunas(sheet[k], sheet[k].fill)
        /\ NamesAre(sheet[k], sheet[k].fill,
                    [primeiro_nome |-> <<"A", "b">>,
                     sobrenome |-> <<"C", " ", "D", "1", "E">>])

\* The sheet of task k is read and its header matches neither pattern.
NoPattern(k) ==
    /\ pc[k] # "none"
    /\ sheet[k].readable
    /\ ~padrao_3_colunas(sheet[k]) /\ ~padrao_4_colunas(sheet[k])

\* C12: a job whose header matches neither pattern never enters the row
\* loop: no row is counted, no output is written, its entry never reads a
\* progress of 30 or more and never shows Completed, and once its worker is
\* past the handler the entry is Error with the message of the format check.
C12_NoPatternFailsEarly ==
    \A k \in TaskIds :
        NoPattern(k) =>
            /\ pc[k] \notin {"rows", "columns", "save", "validate", "complete"}
            /\ row_idx[k] = 0 /\ novo_dados[k] = 0
            /\ k \notin DOMAIN output
            /\ shown[JobOf(k)] \subseteq {"processing", "error"}
            /\ HasJob(registry, JobOf(k)) => Progress(JobOf(k)) < 30
            /\ pc[k] \in {"finally", "done"} =>
                   /\ err[k] = MsgFormat
                   /\ "error" \in shown[JobOf(k)]
                   /\ HasJob(registry, JobOf(k)) =>
                          /\ registry[JobOf(k)].status = "error"
                          /\ registry[JobOf(k)].error = MsgFormat

\* A job with an unknown header has failed, its worker has returned.
C12_Witness ==
    \E k \in TaskIds :
        /\ NoPattern(k) /\ pc[k] = "done" /\ err[k] = MsgFormat
        /\ StatusIs(JobOf(k), "error") /\ registry[JobOf(k)].error = MsgFormat
        /\ sheet[k].n > 0

\* The digits of the phone cell of a row, before the repair.
PhoneDigits(sh, row) == OnlyDigits(row[Idx(sh, "telefone")])

\* C13: the phone of a row whose cell has more than 13 digits is the first 4
\* of them followed by the last 9 (13 digits: the 5th was removed until 13
\* were left); a cell with 13 digits or fewer gives its digits unchanged.
C13_PhoneRepair ==
    \A k \in TaskIds :
        RowsRead(k) =>
            \A row \in SolidRows(sheet[k]) :
                LET d == PhoneDigits(sheet[k], row)
                    telefone == TransformRow(sheet[k], row)[3]
                IN  /\ Len(d) > 13 =>
                          /\ Len(telefone) = 13
                          /\ telefone = SubSeq(d, 1, 4) \o SubSeq(d, Len(d) - 8, Len(d))
                    /\ Len(d) <= 13 => telefone = d

\* A finished job with a kept row whose cell had 16 digits or more: at
\* least three were removed.
C13_Witness ==
    \E k \in TaskIds :
        /\ pc[k] = "done" /\ StatusIs(JobOf(k), "completed")
        /\ Len(PhoneDigits(sheet[k], sheet[k].fill)) >= 16
        /\ TransformRow(sheet[k], sheet[k].fill)[3]
               = <<"1", "2", "3", "4">> \o SubSeq(PhoneDigits(sheet[k], sheet[k].fill),
                                                  Len(PhoneDigits(sheet[k], sheet[k].fill)) - 8,
                                                  Len(PhoneDigits(sheet[k], sheet[k].fill)))

\* The row loop of task k is over.
RowsDone(k) == RowsRead(k) /\ pc[k] # "rows"

\* The indices of the data rows that are not blank and whose phone, digits
\* only and repaired, has 10 digits or more; and those of the blank rows.
LongPhoneRows(sh) ==
    {i \in 0 .. sh.n - 1 :
        ~IsBlankRow(RowAt(sh, i)) /\ Len(TransformRow(sh, RowAt(sh, i))[3]) >= 10}

BlankRows(sh) == {i \in 0 .. sh.n - 1 : IsBlankRow(RowAt(sh, i))}

\* C14: the rows the loop keeps are exactly the non-blank rows whose phone
\* has 10 digits or more, whatever their name and tag; a row with a shorter
\* phone is neither kept nor counted as blank. The count of kept rows, and
\* the metrics of a Completed job, are those numbers.
C14_ShortPhoneExcluded ==
    \A k \in TaskIds :
        RowsDone(k) =>
            /\ novo_dados[k] = Cardinality(LongPhoneRows(sheet[k]))
            /\ StatusIs(JobOf(k), "completed") =>
                   /\ registry[JobOf(k)].resultado.linhas_novo
                          = Cardinality(LongPhoneRows(sheet[k]))
                   /\ registry[JobOf(k)].resultado.linhas_em_branco
                          = Cardinality(BlankRows(sheet[k]))

\* A Completed job whose sheet had a blank row, a row with a name, a tag and
\* nine digits, and a row with exactly ten digits: one kept, one blank.
C14_Witness ==
    \E k \in TaskIds :
        /\ pc[k] = "done" /\ StatusIs(JobOf(k), "completed")
        /\ sheet[k].n = 3
        /\ Len(TransformRow(sheet[k], RowAt(sheet[k], 1))[3]) = 9
        /\ TransformRow(sheet[k], RowAt(sheet[k], 1))[1] # <<>>
        /\ Len(TransformRow(sheet[k], sheet[k].fill)[3]) = 10
        /\ registry[JobOf(k)].resultado.linhas_novo = 1
        /\ registry[JobOf(k)].resultado.linhas_em_branco = 1

\* The row indices of a sheet that are multiples of 1000.
Thousands(sh) == {r \in 0 .. sh.n - 1 : r % ProgressEvery = 0}

\* This step takes the row loop of task k past the row of index r.
PassesRow(k, r) ==
    /\ pc[k] = "rows" /\ row_idx[k] <= r
    /\ pc'[k] # "rows" \/ row_idx'[k] > r

\* C15: the step of the row loop that goes past a row whose index is a
\* multiple of 1000 writes min(80, 30 + floor(index / row count * 50)) to the
\* entry of the job, whatever the row holds.
C15_CheckpointEveryThousand ==
    [][\A k \in TaskIds : \A r \in Thousands(sheet[k]) :
          (PassesRow(k, r) /\ HasJob(registry, JobOf(k)))
              => Progress(JobOf(k))' = RowProgress(sheet[k], r)]_vars

\* C16: never more than 3 tasks are inside the worker function; a task that
\* no worker has taken has its job at Processing with progress 0, and is
\* taken only when fewer than 3 are running -- and then the head of the queue
\* can be; whatever the workers are doing, an upload (while the model accepts
\* any), a status query and a download can each take their step.
C16_PoolOfThree ==
    /\ Cardinality(Running) <= 3
    /\ \A k \in TaskIds :
          pc[k] = "queued" =>
              /\ StatusIs(JobOf(k), "processing") /\ Progress(JobOf(k)) = 0
              /\ Cardinality(Running) = 3 => ~ENABLED LoadWorkbook(k)
    /\ (queue # <<>> /\ Cardinality(Running) < 3) => ENABLED LoadWorkbook(Head(queue))
    /\ \A j \in TaskIds : ENABLED verificar_status(j) /\ ENABLED download_arquivo(j)
    /\ nextJob <= PoolJobs => ENABLED upload_excel(PoolJobs, "c.xlsx", SheetTiny)

\* Three tasks are running and a fourth, accepted while they were, waits at
\* Processing with progress 0.
C16_Witness ==
    /\ Cardinality(Running) = 3
    /\ \E k \in waited :
          pc[k] = "queued" /\ StatusIs(JobOf(k), "processing") /\ Progress(JobOf(k)) = 0

OutputFields == {"arquivo_saida", "nome_arquivo", "resultado"}

\* C17: an entry has the output path, the output name and the result
\* metrics exactly when it is Completed, and an error message exactly when
\* it is Error; a Processing entry has none of the four.
C17_FieldPresence ==
    \A j \in TaskIds :
        HasJob(registry, j) =>
            LET fields == DOMAIN registry[j]
            IN  /\ registry[j].status \in {"processing", "completed", "error"}
                /\ registry[j].status = "completed" => OutputFields \subseteq fields
                /\ registry[j].status # "completed" => OutputFields \cap fields = {}
                /\ "error" \in fields <=> registry[j].status = "error"

\* One entry Completed and one in Error, both after a progress write.
C17_Witness ==
    \E i, j \in JobIds :
        /\ StatusIs(i, "completed") /\ OutputFields \subseteq DOMAIN registry[i]
        /\ StatusIs(j, "error") /\ registry[j].error = MsgCorrupt

\* "nan" in every letter case.
NanSpellings ==
    {<<a, b, c>> : a \in {"n", "N"}, b \in {"a", "A"}, c \in {"n", "N"}}

\* The first of etiquetas, etiqueta, tag that the header has.
FirstTagColumn(sh) ==
    IF "etiquetas" \in HeaderSet(sh) THEN "etiquetas"
    ELSE IF "etiqueta" \in HeaderSet(sh) THEN "etiqueta"
    ELSE "tag"

KeptRows(sh) == {row \in SolidRows(sh) : Len(TransformRow(sh, row)[3]) >= 10}

\* C18: the tag of every kept row is the trimmed cell of the first tag
\* column of the header followed by ", NomeConfirmado" when that cell is
\* neither empty nor "nan" in some letter case, and "NomeConfirmado" alone
\* otherwise.
C18_TagDerivation ==
    \A k \in TaskIds :
        RowsRead(k) =>
            \A row \in KeptRows(sheet[k]) :
                LET val == Strip(row[Idx(sheet[k], FirstTagColumn(sheet[k]))])
                    etiquetas == TransformRow(sheet[k], row)[4]
                IN  IF val # <<>> /\ val \notin NanSpellings
                    THEN etiquetas = val \o <<",", " ", "N", "o", "m", "e", "C", "o", "n",
                                              "f", "i", "r", "m", "a", "d", "o">>
                    ELSE etiquetas = <<"N", "o", "m", "e", "C", "o", "n",
                                       "f", "i", "r", "m", "a", "d", "o">>

\* A Completed job whose kept row has the tag cell " NaN ", under a header
\* that has a "tag" column before "etiquetas".
C18_Witness ==
    \E k \in TaskIds :
        /\ pc[k] = "done" /\ StatusIs(JobOf(k), "completed")
        /\ sheet[k].header = HeaderTag
        /\ sheet[k].fill \in KeptRows(sheet[k])
        /\ sheet[k].fill[Idx(sheet[k], "etiquetas")] = <<" ", "N", "a", "N", " ">>
        /\ TransformRow(sheet[k], sheet[k].fill)[4] = etiqueta_padrao

\* The file the Completed entry of j names exists and can be read, and the
\* entry records one kept row or more.
ArtifactThere(j) ==
    /\ registry[j].arquivo_saida \in DOMAIN output
    /\ output[registry[j].arquivo_saida].readable
    /\ registry[j].resultado.linhas_novo >= 1

\* C19: every Completed entry names an output file that exists, with one
\* kept row or more recorded; the file was there before the step that made
\* the entry Completed; and a download for an entry that is Completed is
\* served, while none for an entry that ever showed Completed finds the
\* file missing.
C19_ArtifactBeforeCompleted ==
    [][\A j \in TaskIds :
          /\ StatusIs(j, "completed")' => ArtifactThere(j)'
          /\ (~StatusIs(j, "completed") /\ StatusIs(j, "completed")')
                 => (Issued(j) /\ Owner(j) \in DOMAIN output
                     /\ registry'[j].arquivo_saida = Owner(j))
          /\ (download_arquivo(j) /\ "completed" \in shown[j])
                 => /\ resp'.detail # "Arquivo nao encontrado"
                    /\ StatusIs(j, "completed") => resp'.code = 200]_vars

\* A download served for a Completed job whose file holds the kept rows.
C19_Witness ==
    /\ resp.op = "download" /\ resp.code = 200
    /\ StatusIs(resp.job_id, "completed") /\ ArtifactThere(resp.job_id)
    /\ output[registry[resp.job_id].arquivo_saida].rows
           = 1 + registry[resp.job_id].resultado.linhas_novo

\* C20: a progress update for a job id that has no entry changes nothing in
\* the registry; the terminal write of a worker leaves the entry there,
\* Completed or Error, whether or not it was there before; a status query
\* for an id with no entry answers 404; and the entry of a job that was
\* dispatched and has expired comes back only in a terminal status, never
\* in Processing.
C20_ExpiredReappearsTerminal ==
    [][\A j \in TaskIds :
          /\ (Issued(j) /\ ~HasJob(registry, j) /\ HasJob(registry', j))
                 => registry'[j].status \in {"completed", "error"}
          /\ (Issued(j) /\ pc[Owner(j)] = "complete" /\ pc'[Owner(j)] = "finally")
                 => StatusIs(j, "completed")'
          /\ (Issued(j) /\ pc[Owner(j)] = "except" /\ pc'[Owner(j)] = "finally")
                 => StatusIs(j, "error")'
          /\ (verificar_status(j) /\ ~HasJob(registry, j)) => resp'.code = 404]_vars

=============================================================================
